---- MODULE Spec2Model ----
(***************************************************************************)
(* State-machine model of mongo_table_model.py: BaseMongoTableModel, the   *)
(* instance LRU cache around documentAtIndex, and the remote collection    *)
(* the pymongo cursor reads from.                                          *)
(*                                                                         *)
(* Strings that the program sorts or splits (header keys) are sequences of *)
(* one-character strings, ordered by code point as Python orders str.      *)
(* A document is a function from key to value; a value is a record tagged  *)
(* "scalar" (v: a number) or "dict" (d: a nested document).                *)
(***************************************************************************)
EXTENDS Integers, Sequences, FiniteSets, TLC

\* ------------------------------------------------------------- bounds
\* number of documents that exist in the modelled collection's universe
NumDocs == 2
\* capacity of the instance LRU cache (cache_size of the constructor)
CacheSize == 2
\* largest max_nesting the constructor is called with
MaxNesting == 1
\* number of out-of-band changes of the collection in one behaviour
MaxStoreOps == 2

\* ------------------------------------------------------------- strings
\* code points of the characters that occur in keys
Ord ==
    ("." :> 46) @@ ("A" :> 65) @@ ("_" :> 95) @@ ("a" :> 97) @@ ("b" :> 98)
    @@ ("d" :> 100) @@ ("e" :> 101) @@ ("i" :> 105)

\* Python's str.__lt__: lexicographic by code point, a proper prefix is less
RECURSIVE StrLess(_, _)
StrLess(s, t) ==
    IF t = <<>> THEN FALSE
    ELSE IF s = <<>> THEN TRUE
    ELSE IF Ord[Head(s)] # Ord[Head(t)] THEN Ord[Head(s)] < Ord[Head(t)]
    ELSE StrLess(Tail(s), Tail(t))

\* str.split("."): the list of segments between the dots
RECURSIVE SplitFrom(_, _)
SplitFrom(s, cur) ==
    IF s = <<>> THEN <<cur>>
    ELSE IF Head(s) = "." THEN <<cur>> \o SplitFrom(Tail(s), <<>>)
    ELSE SplitFrom(Tail(s), Append(cur, Head(s)))

Split(s) == SplitFrom(s, <<>>)

\* f"{root}.{key}"
Dotted(root, key) == root \o <<".">> \o key

\* insertion of one element into an ascending list, after its equals
RECURSIVE InsertSorted(_, _)
InsertSorted(x, s) ==
    IF s = <<>> THEN <<x>>
    ELSE IF StrLess(x, Head(s)) THEN <<x>> \o s
    ELSE <<Head(s)>> \o InsertSorted(x, Tail(s))

\* sorted(list): ascending, stable
RECURSIVE Sorted(_)
Sorted(s) ==
    IF s = <<>> THEN <<>>
    ELSE InsertSorted(s[Len(s)], Sorted(SubSeq(s, 1, Len(s) - 1)))

\* list(dict.fromkeys(list)): first occurrences, order kept
RECURSIVE Unique(_)
Unique(s) ==
    IF s = <<>> THEN <<>>
    ELSE LET init == Unique(SubSeq(s, 1, Len(s) - 1))
         IN IF \E i \in 1..Len(init) : init[i] = s[Len(s)]
            THEN init
            ELSE Append(init, s[Len(s)])

\* list.index(x), 0-based; the element is present where this is used
IndexOf(s, x) == (CHOOSE i \in 1..Len(s) : s[i] = x /\ \A j \in 1..(i - 1) : s[j] # x) - 1

InList(s, x) == \E i \in 1..Len(s) : s[i] = x

Range(s) == {s[i] : i \in 1..Len(s)}

\* ------------------------------------------------------------- values
K_id == <<"_", "i", "d">>
K_a == <<"a">>
K_b == <<"b">>
K_A == <<"A">>
K_e == <<"e">>

Scalar(n) == [t |-> "scalar", v |-> n]
Dict(d) == [t |-> "dict", d |-> d]
\* Python's None and an invalid QVariant(): the two "absent" results
None == [t |-> "None"]
QVariant == [t |-> "QVariant"]
\* an exception that leaves the called method
Raised(e) == [t |-> "raise", e |-> e]

IsDict(value) == value.t = "dict"

\* decimal digits of a natural number
RECURSIVE Digits(_)
Digits(n) ==
    LET d == <<"0", "1", "2", "3", "4", "5", "6", "7", "8", "9">>[(n % 10) + 1]
    IN IF n < 10 THEN <<d>> ELSE Append(Digits(n \div 10), d)

\* str(value): digits for a number, "None" for None, the object's repr otherwise
Str(value) ==
    [t |-> "str",
     s |-> IF value.t = "scalar" THEN Digits(value.v)
           ELSE IF value.t = "None" THEN <<"N", "o", "n", "e">>
           ELSE <<"<", value.t, ">">>]

\* bson.json_util.dumps(value, indent=2): the JSON rendering of the value
Dumps(value) == [t |-> "json", of |-> value]

\* ------------------------------------------------------------- the collection
DocIds == 1..NumDocs

\* The document with unique identifier id. Two shapes, by id modulo 2:
\*   {"_id": id, "A": 10*id + 1, "a": {"b": 10*id + 2}}
\*   {"_id": id, "a": 10*id + 1, "e": {}}
Document(id) ==
    IF id % 2 = 1
    THEN (K_id :> Scalar(id)) @@ (K_A :> Scalar(10 * id + 1))
         @@ (K_a :> Dict(K_b :> Scalar(10 * id + 2)))
    ELSE (K_id :> Scalar(id)) @@ (K_a :> Scalar(10 * id + 1))
         @@ (K_e :> Dict(<<>>))

\* a query {"_id": {"$gte": q}}: the documents it matches
Queries == {1, 2}
Matches(q, id) == id >= q

\* find(query).sort("_id") evaluated on the collection st: identifiers ascending
RECURSIVE Ascending(_)
Ascending(ids) ==
    IF ids = {} THEN <<>>
    ELSE LET m == CHOOSE x \in ids : \A y \in ids : x <= y
         IN <<m>> \o Ascending(ids \ {m})

ResultSet(st, q) == Ascending({id \in st : Matches(q, id)})

\* count_documents(query) and cursor.count()
Count(st, q) == Cardinality({id \in st : Matches(q, id)})

\* one out-of-band change of the collection: a deletion or an insertion
StoreSteps(st) == {st \ {id} : id \in st} \cup {st \cup {id} : id \in DocIds \ st}

\* ------------------------------------------------------------- state
VARIABLES
    store,        \* identifiers of the documents now in the remote collection
    storeOps,     \* out-of-band changes of the collection so far
    max_nesting,  \* self.max_nesting
    header,       \* self.header
    cursor,       \* self.cursor: NoCursor, or the query the cursor is bound to
    n_docs,       \* self.n_docs
    cache,        \* the LRU cache of documentAtIndex, least recently used first
    decorated,    \* documentAtIndex has been replaced by its cached method
    discovered,   \* keys of the documents served since the last completed setQuery
    last          \* the last operation: its arguments, round trips, result, signals

vars ==
    <<store, storeOps, max_nesting, header, cursor, n_docs, cache, decorated,
      discovered, last>>

NoCursor == [bound |-> FALSE]
Cursor(q) == [bound |-> TRUE, query |-> q]

\* signals of QAbstractItemModel
Begin(name, first, lst) == [e |-> name, first |-> first, last |-> lst]
End(name) == [e |-> name]

\* the record of an operation; fetch and recount name the round trips it made
Op(name, row, col, field, role, query) ==
    [op |-> name, row |-> row, col |-> col, field |-> field, role |-> role,
     query |-> query]

Done(call, fetch, recount, ret, events) ==
    [op |-> call.op, row |-> call.row, col |-> call.col, field |-> call.field,
     role |-> call.role, query |-> call.query,
     fetch |-> fetch, recount |-> recount, ret |-> ret, events |-> events]

\* ------------------------------------------------------------- the LRU cache
CacheHas(c, key) == \E i \in 1..Len(c) : c[i].key = key
CachePos(c, key) == CHOOSE i \in 1..Len(c) : c[i].key = key

\* a hit moves the entry to the most recently used end
CacheTouch(c, key) ==
    LET i == CachePos(c, key)
    IN SubSeq(c, 1, i - 1) \o SubSeq(c, i + 1, Len(c)) \o <<c[i]>>

\* a miss stores the result, evicting the least recently used entry when full
CachePut(c, key, result) ==
    LET entry == [key |-> key, result |-> result]
    IN IF Len(c) >= CacheSize THEN Append(Tail(c), entry) ELSE Append(c, entry)

\* ------------------------------------------------------------- documentAtIndex
\* the collection at the time of a second round trip: unchanged, or changed once
MidStores == IF storeOps < MaxStoreOps THEN {store} \cup StoreSteps(store) ELSE {store}

\* HandleIndexError with the assignment self.n_docs = n_docs left out
HandleIndexError_KeepsCount(same, index, st2, recount) ==
    IF recount = "error"
    THEN [same EXCEPT !.raised = "PyMongoError", !.fetch = "unavailable",
                      !.recount = "error", !.store = st2]
    ELSE LET n == Count(st2, cursor.query)
             shrunk == n - n_docs < 0
         IN [same EXCEPT
               !.fetch = "unavailable", !.recount = "ok", !.store = st2,
               !.events =
                 IF shrunk
                 THEN <<Begin("beginRemoveRows", n, n_docs - 1),
                        End("endRemoveRows")>>
                 ELSE <<>>,
               !.cache = CachePut(<<>>, index, None)]

\* HandleIndexError that assigns the difference to self.n_docs
HandleIndexError_AssignsDelta(same, index, st2, recount) ==
    IF recount = "error"
    THEN [same EXCEPT !.raised = "PyMongoError", !.fetch = "unavailable",
                      !.recount = "error", !.store = st2]
    ELSE LET n == Count(st2, cursor.query)
             n_docs_delta == n - n_docs
             shrunk == n_docs_delta < 0
         IN [same EXCEPT
               !.fetch = "unavailable", !.recount = "ok", !.store = st2,
               !.events =
                 IF shrunk
                 THEN <<Begin("beginRemoveRows", n_docs + n_docs_delta, n_docs - 1),
                        End("endRemoveRows")>>
                 ELSE <<>>,
               !.n_docs = IF shrunk THEN n_docs_delta ELSE n_docs,
               !.cache = CachePut(<<>>, index, None)]

\* the handler of IndexError, when cursor.count() sees the collection st2 and
\* either raises a PyMongoError (recount = "error") or answers
HandleIndexError(same, index, st2, recount) ==
    IF recount = "error"
    THEN [same EXCEPT !.raised = "PyMongoError", !.fetch = "unavailable",
                      !.recount = "error", !.store = st2]
    ELSE LET n == Count(st2, cursor.query)
             n_docs_delta == n - n_docs
             shrunk == n_docs_delta < 0
         IN [same EXCEPT
               !.fetch = "unavailable", !.recount = "ok", !.store = st2,
               !.events =
                 IF shrunk
                 THEN <<Begin("beginRemoveRows", n_docs + n_docs_delta, n_docs - 1),
                        End("endRemoveRows")>>
                 ELSE <<>>,
               !.n_docs = IF shrunk THEN n ELSE n_docs,
               \* cache_clear(), then lru_cache stores the None this call returns
               !.cache = CachePut(<<>>, index, None)]

\* HandlePyMongoError that also invalidates the cache, as the IndexError handler does
HandlePyMongoError_Clears(same, index) ==
    [same EXCEPT !.fetch = "error", !.cache = CachePut(<<>>, index, None)]

\* HandlePyMongoError whose None is not stored in the cache
HandlePyMongoError_NotCached(same, index) == [same EXCEPT !.fetch = "error"]

\* the handler of PyMongoError on the positional fetch: doc = None, which
\* lru_cache stores like any other result
HandlePyMongoError(same, index) ==
    [same EXCEPT !.fetch = "error", !.cache = CachePut(cache, index, None)]

\* Every outcome of one call documentAtIndex(index): the document returned
\* (None, or Dict of the document), the exception that left the call ("" when
\* it returned), the new n_docs, cache and collection, the signals emitted and
\* the round trips made.  The positional fetch cursor[index] answers from the
\* collection or raises a PyMongoError; the collection may change before the
\* recount, and the recount answers or raises a PyMongoError.
DocumentAtIndex(index) ==
    LET same == [doc |-> None, raised |-> "", n_docs |-> n_docs, cache |-> cache,
                 store |-> store, events |-> <<>>, fetch |-> "hit",
                 recount |-> "none"]
    IN IF CacheHas(cache, index)
       THEN \* lru_cache hit: the stored result, no call of the function
            {[same EXCEPT !.doc = cache[CachePos(cache, index)].result,
                          !.cache = CacheTouch(cache, index)]}
       ELSE IF ~cursor.bound
       THEN \* None[index]
            {[same EXCEPT !.raised = "TypeError", !.fetch = "nocursor"]}
       ELSE LET rs == ResultSet(store, cursor.query)
            IN {HandlePyMongoError(same, index)}
               \cup
               IF index < Len(rs)
               THEN LET doc == Dict(Document(rs[index + 1]))
                    IN {[same EXCEPT !.doc = doc, !.fetch = "doc",
                                     !.cache = CachePut(cache, index, doc)]}
               ELSE \* except IndexError
                    {HandleIndexError(same, index, st2, recount)
                     : st2 \in MidStores, recount \in {"ok", "error"}}

\* getKeys that still expands a nested document when the depth left is 0
RECURSIVE GetKeys_OffByOne(_, _, _)
GetKeys_OffByOne(doc, depth, root) ==
    UNION {LET nested_key == IF root # <<>> THEN Dotted(root, key) ELSE key
           IN IF depth >= 0 /\ IsDict(doc[key])
              THEN GetKeys_OffByOne(doc[key].d, depth - 1, nested_key)
              ELSE {nested_key}
           : key \in DOMAIN doc}

\* ------------------------------------------------------------- updateHeader
\* getKeys(doc, depth, root) as the set it is turned into; root <<>> is None
RECURSIVE GetKeys(_, _, _)
GetKeys(doc, depth, root) ==
    UNION {LET nested_key == IF root # <<>> THEN Dotted(root, key) ELSE key
           IN IF depth > 0 /\ IsDict(doc[key])
              THEN GetKeys(doc[key].d, depth - 1, nested_key)
              ELSE {nested_key}
           : key \in DOMAIN doc}

\* the orders in which `for key in new_keys` may visit a set
Orders(S) == {o \in [1..Cardinality(S) -> S] : Range(o) = S}

\* HeaderWith that appends the new key instead of sorting it in
HeaderWith_Appends(hdr, key) == Unique(hdr \o <<key>>)

\* HeaderWith that keeps only "_id" and the new key
HeaderWith_OnlyNew(hdr, key) == Unique(Sorted(<<K_id, key>>))

\* header = sorted(self.header + [key]); header = list(dict.fromkeys(header))
HeaderWith(hdr, key) == Unique(Sorted(hdr \o <<key>>))

\* the loop over new_keys announcing every key at the end of the old header
RECURSIVE InsertKeys_AtEnd(_, _)
InsertKeys_AtEnd(hdr, order) ==
    IF order = <<>> THEN [header |-> hdr, events |-> <<>>]
    ELSE LET key == Head(order)
             sorted == HeaderWith(hdr, key)
             section == Len(hdr)
             rest == InsertKeys_AtEnd(sorted, Tail(order))
         IN [header |-> rest.header,
             events |-> <<Begin("beginInsertColumns", section, section),
                          End("endInsertColumns")>> \o rest.events]

\* the loop over new_keys, visiting them in the given order
RECURSIVE InsertKeys(_, _)
InsertKeys(hdr, order) ==
    IF order = <<>> THEN [header |-> hdr, events |-> <<>>]
    ELSE LET key == Head(order)
             sorted == HeaderWith(hdr, key)
             section == IndexOf(sorted, key)
             rest == InsertKeys(sorted, Tail(order))
         IN [header |-> rest.header,
             events |-> <<Begin("beginInsertColumns", section, section),
                          End("endInsertColumns")>> \o rest.events]

\* updateHeader(doc): the header and the signals, for every order of new_keys
UpdateHeader(hdr, doc, depth) ==
    LET doc_keys == GetKeys(doc, depth, <<>>)
        new_keys == doc_keys \ Range(hdr)
    IN {InsertKeys(hdr, order) : order \in Orders(new_keys)}

\* ------------------------------------------------------------- data
Roles == {"display", "user"}

\* the representation of a value for a role
Format(value, role) ==
    CASE role = "display" -> Str(value)
      [] role = "tooltip" -> Dumps(value)
      [] role = "user" -> value
      [] OTHER -> QVariant

\* value = doc; for key in keys: value = value[key]
RECURSIVE Walk(_, _)
Walk(value, keys) ==
    IF keys = <<>> THEN value
    ELSE IF ~IsDict(value) THEN Raised("TypeError")
    ELSE IF Head(keys) \notin DOMAIN value.d THEN Raised("KeyError")
    ELSE Walk(value.d[Head(keys)], Tail(keys))

\* self.index(row, column).isValid()
ValidIndex(row, col) == row >= 0 /\ row < n_docs /\ col >= 0 /\ col < Len(header)

\* data(index, role) once documentAtIndex has answered with d
DataAfterFetch(d, col, role) ==
    LET out == [ret |-> QVariant, header |-> header, n_docs |-> d.n_docs,
                cache |-> d.cache, store |-> d.store, events |-> d.events,
                fetch |-> d.fetch, recount |-> d.recount, keys |-> {}]
    IN IF d.raised # ""
       THEN {[out EXCEPT !.ret = Raised(d.raised)]}
       ELSE IF d.doc = None
       THEN {out}
       ELSE {LET key == u.header[col + 1]
                 value == Walk(d.doc, Split(key))
             IN [out EXCEPT
                   !.header = u.header,
                   !.events = d.events \o u.events,
                   !.keys = GetKeys(d.doc.d, max_nesting, <<>>),
                   !.ret = IF value.t = "raise"
                           THEN IF value.e = "KeyError" THEN QVariant ELSE value
                           ELSE Format(value, role)]
             : u \in UpdateHeader(header, d.doc.d, max_nesting)}

\* every outcome of data(self.index(row, col), role)
Data(row, col, role) ==
    IF ~ValidIndex(row, col)
    THEN {[ret |-> QVariant, header |-> header, n_docs |-> n_docs,
           cache |-> cache, store |-> store, events |-> <<>>,
           fetch |-> "none", recount |-> "none", keys |-> {}]}
    ELSE UNION {DataAfterFetch(d, col, role) : d \in DocumentAtIndex(row)}

\* every outcome of value(row, field, role)
Value(row, field, role) ==
    IF InList(header, field)
    THEN Data(row, IndexOf(header, field), role)
    ELSE {[ret |-> None, header |-> header, n_docs |-> n_docs,
           cache |-> cache, store |-> store, events |-> <<>>,
           fetch |-> "none", recount |-> "none", keys |-> {}]}

\* every outcome of documentIdAtIndex(index): str(self.value(index, "_id"))
DocumentIdAtIndex(index) ==
    {[o EXCEPT !.ret = IF o.ret.t = "raise" THEN o.ret ELSE Str(o.ret)]
     : o \in Value(index, K_id, "user")}

\* ------------------------------------------------------------- actions
\* the arguments an operation does not have: row and column -1, key <<>>, query 0
NoKey == <<>>

Init ==
    /\ store = DocIds
    /\ storeOps = 0
    /\ max_nesting \in 0..MaxNesting
    /\ header = <<>>
    /\ cursor = NoCursor
    /\ n_docs = 0
    /\ cache = <<>>
    /\ decorated = FALSE
    /\ discovered = {}
    /\ last = Done(Op("init", -1, -1, NoKey, "", 0), "none", "none",
                   None, <<>>)

\* the state an outcome o of data/value/documentIdAtIndex leaves behind
Apply(call, o) ==
    /\ header' = o.header
    /\ n_docs' = o.n_docs
    /\ cache' = o.cache
    /\ store' = o.store
    /\ storeOps' = IF o.store # store THEN storeOps + 1 ELSE storeOps
    /\ decorated' = (decorated \/ o.fetch # "none")
    /\ discovered' = discovered \cup o.keys
    /\ last' = Done(call, o.fetch, o.recount, o.ret, o.events)
    /\ UNCHANGED <<max_nesting, cursor>>

\* setQuery without the header reset
ResetHeader_Keeps == IF header = <<>> THEN <<K_id>> ELSE header

\* self.header = ["_id"]
ResetHeader == <<K_id>>

\* setQuery(db, collection, query); outcome names the store call that raises
SetQuery(q, outcome) ==
    /\ storeOps' = storeOps
    /\ UNCHANGED <<store, max_nesting, decorated>>
    /\ CASE outcome = "find" ->
              \* find() raises after beginResetModel()
              /\ UNCHANGED <<cursor, n_docs, cache, header, discovered>>
              /\ last' = Done(Op("setQuery", -1, -1, NoKey, "", q),
                              "none", "none", Raised("PyMongoError"),
                              <<End("beginResetModel")>>)
         [] outcome = "count" ->
              \* count_documents() raises: the cursor is already rebound
              /\ cursor' = Cursor(q)
              /\ UNCHANGED <<n_docs, cache, header, discovered>>
              /\ last' = Done(Op("setQuery", -1, -1, NoKey, "", q),
                              "none", "none", Raised("PyMongoError"),
                              <<End("beginResetModel")>>)
         [] OTHER ->
              /\ cursor' = Cursor(q)
              /\ n_docs' = Count(store, q)
              \* cache_clear(); AttributeError before the first call is ignored
              /\ cache' = IF decorated THEN <<>> ELSE cache
              /\ header' = ResetHeader
              /\ discovered' = {}
              /\ last' = Done(Op("setQuery", -1, -1, NoKey, "", q),
                              "none", "none", None,
                              <<End("beginResetModel"), End("endResetModel")>>)

\* data(self.index(row, col), role)
DataCall(row, col, role) ==
    \E o \in Data(row, col, role) :
        Apply(Op("data", row, col, NoKey, role, 0), o)

\* value(row, field, role)
ValueCall(row, field, role) ==
    \E o \in Value(row, field, role) :
        Apply(Op("value", row, -1, field, role, 0), o)

\* documentIdAtIndex(row)
DocumentIdAtIndexCall(row) ==
    \E o \in DocumentIdAtIndex(row) :
        Apply(Op("documentIdAtIndex", row, -1, NoKey, "", 0), o)

\* a document is deleted from or inserted into the collection out-of-band
StoreChange ==
    /\ storeOps < MaxStoreOps
    /\ store' \in StoreSteps(store)
    /\ storeOps' = storeOps + 1
    /\ last' = Done(Op("store", -1, -1, NoKey, "", 0), "none", "none",
                    None, <<>>)
    /\ UNCHANGED <<max_nesting, header, cursor, n_docs, cache, decorated,
                   discovered>>

\* the column identifiers a caller may ask value() for
Fields == {K_id, K_a, K_A, K_e, Dotted(K_a, K_b), K_b}

Next ==
    \/ StoreChange
    \/ \E row \in 0..n_docs, col \in 0..Len(header), role \in Roles :
          DataCall(row, col, role)
    \/ \E row \in 0..n_docs, field \in Fields, role \in Roles :
          ValueCall(row, field, role)
    \/ \E row \in 0..n_docs : DocumentIdAtIndexCall(row)
    \/ \E q \in Queries, outcome \in {"ok", "find", "count"} : SetQuery(q, outcome)

Spec == Init /\ [][Next]_vars

\* ------------------------------------------------------------- properties
Accesses == {"data", "value", "documentIdAtIndex"}

RemoveRows(events) ==
    {i \in 1..Len(events) : events[i].e = "beginRemoveRows"}

\* C1 as stated: if the result set has shrunk to n' < rowCount(), a cell access
\* of a row i with n' <= i < rowCount() sets rowCount() to n', emits exactly one
\* remove-rows notification for [n', old rowCount - 1] and returns absent; and
\* a recount that is not smaller than rowCount() changes nothing.  Read with
\* every store round trip of the access succeeding and the collection not
\* changing while the access runs, and checked for the access that directly
\* follows the out-of-band change.
C1_AsStated ==
    [][(/\ last'.op = "data" /\ cursor.bound /\ ValidIndex(last'.row, last'.col)
        /\ last'.fetch # "error" /\ last'.recount # "error" /\ store' = store)
       => LET n == Count(store, cursor.query)
          IN /\ (last.op = "store" /\ n < n_docs /\ n <= last'.row)
                => /\ n_docs' = n
                   /\ last'.events
                        = <<Begin("beginRemoveRows", n, n_docs - 1),
                            End("endRemoveRows")>>
                   /\ last'.ret = QVariant
             /\ (last'.recount = "ok" /\ n >= n_docs)
                => /\ n_docs' = n_docs
                   /\ RemoveRows(last'.events) = {}]_vars

\* C1 amended: a cell access of a valid row whose positional fetch is reported
\* unavailable (a cache miss, IndexError) and whose recount returns n': if
\* n' < rowCount(), rowCount() becomes n', exactly one remove-rows notification
\* is emitted, for [n', old rowCount - 1], and absent is returned; if
\* n' >= rowCount(), no remove-rows notification is emitted, rowCount() is
\* unchanged and absent is returned.
C1_Reconciliation ==
    [][(last'.op = "data" /\ last'.fetch = "unavailable" /\ last'.recount = "ok")
       => LET n == Count(store', cursor.query)
          IN /\ last'.ret = QVariant
             /\ n < n_docs
                => /\ n_docs' = n
                   /\ last'.events
                        = <<Begin("beginRemoveRows", n, n_docs - 1),
                            End("endRemoveRows")>>
             /\ n >= n_docs
                => /\ n_docs' = n_docs
                   /\ last'.events = <<>>]_vars

\* a cell access has just reconciled a shrunken result set
C1_Witness ==
    /\ last.op = "data"
    /\ last.fetch = "unavailable"
    /\ last.recount = "ok"
    /\ RemoveRows(last.events) # {}
    /\ n_docs = Count(store, cursor.query)

\* a reconciliation whose recount was not smaller than rowCount()
C1_WitnessNoShrink ==
    /\ last.op = "data"
    /\ last.fetch = "unavailable"
    /\ last.recount = "ok"
    /\ last.events = <<>>

\* C2 as stated: whenever a fetch is reported unavailable the entire cache is
\* invalidated (no row-to-document entry stored before survives the access),
\* and the access that follows, to any row j < rowCount(), fetches from the
\* cursor adapter.
C2_AsStated ==
    [][/\ (last'.op \in Accesses /\ last'.fetch = "unavailable")
          => \A i \in 1..Len(cache) :
                cache[i].result # None
                => \A j \in 1..Len(cache') : cache'[j] # cache[i]
       /\ (/\ last.op \in Accesses /\ last.fetch = "unavailable"
           /\ last'.op = "data" /\ ValidIndex(last'.row, last'.col))
          => last'.fetch # "hit"]_vars

\* C3: right after a successful setQuery(Q), rowCount() = count(Q) and the
\* header is the single column "_id".
C3_AfterSetQuery ==
    (last.op = "setQuery" /\ last.ret = None)
    => /\ n_docs = Count(store, last.query)
       /\ Len(header) = 1
       /\ header[1] = K_id

\* a successful setQuery that followed accesses under an earlier query
C3_Witness ==
    /\ last.op = "setQuery"
    /\ last.ret = None
    /\ decorated
    /\ n_docs > 0

\* the document the last access was served with (None when it got none)
Served(l, c) ==
    IF l.op \in Accesses /\ l.fetch \in {"doc", "hit"} /\ CacheHas(c, l.row)
    THEN c[CachePos(c, l.row)].result
    ELSE None

\* the value at a dotted path of a document, absent when the path does not resolve
ValueAt(doc, key) ==
    LET w == Walk(doc, Split(key))
    IN IF w.t = "raise" THEN QVariant ELSE w

\* C4 as stated: cell(row, column, raw) returns the value at the path that
\* columnName(column) named when the call was made, absent if it does not resolve.
C4_AsStated ==
    [][(/\ last'.op = "data" /\ last'.role = "user"
        /\ ValidIndex(last'.row, last'.col)
        /\ Served(last', cache') # None)
       => last'.ret = ValueAt(Served(last', cache'), header[last'.col + 1])]_vars

\* C5 as stated: valueOf(row, k, raw) returns the value at path k of the row's
\* document (absent if it does not resolve) for k in the Header, and absent
\* for k not in the Header.
C5_AsStated ==
    [][(last'.op = "value" /\ last'.role = "user")
       => IF ~InList(header, last'.field)
          THEN last'.ret = None
          ELSE Served(last', cache') # None
               => last'.ret = ValueAt(Served(last', cache'), last'.field)]_vars

\* C6 as stated: idOf(row) returns the string form of the "_id" value of the
\* document at row, whatever other keys the document has.
C6_AsStated ==
    [][(last'.op = "documentIdAtIndex" /\ Served(last', cache') # None)
       => last'.ret = Str(Served(last', cache').d[K_id])]_vars

\* C7 as stated: whatever the store round trips of a cell access do, the access
\* returns a value or absent; no failure leaves it.
C7_AsStated ==
    last.op = "data" => last.ret.t # "raise"

\* C8 as stated: when the path of the column's identifier does not exist in
\* the row's document, cell returns absent without failing.
C8_AsStated ==
    (/\ last.op = "data" /\ Served(last, cache) # None
     /\ Walk(Served(last, cache), Split(header[last.col + 1])).t = "raise")
    => last.ret = QVariant

\* C9: an access whose positional fetch fails with a PyMongoError returns
\* absent, makes no recount, emits no signal, leaves rowCount(), the Header
\* and the collection alone, and drops no cached entry of another row but the
\* least recently used one that a full cache evicts.
C9_StoreUnavailable ==
    [][(last'.op \in {"data", "value"} /\ last'.fetch = "error")
       => /\ last'.ret = QVariant
          /\ last'.recount = "none"
          /\ last'.events = <<>>
          /\ n_docs' = n_docs
          /\ header' = header
          /\ store' = store
          /\ \A i \in 1..Len(cache) :
                \/ \E j \in 1..Len(cache') : cache'[j] = cache[i]
                \/ Len(cache) >= CacheSize /\ i = 1]_vars

\* a fetch has failed with a PyMongoError while another row's document stays cached
C9_Witness ==
    /\ last.op = "data"
    /\ last.fetch = "error"
    /\ \E i \in 1..Len(cache) : cache[i].key # last.row /\ cache[i].result # None

\* strictly ascending, hence free of duplicates
Ascends(hdr) == \A i, j \in 1..Len(hdr) : i < j => StrLess(hdr[i], hdr[j])

\* C10: once a setQuery has completed, the Header is the ascending,
\* duplicate-free list of "_id" and the identifiers discovered from the
\* documents served since the last completed setQuery.
C10_HeaderOrdering ==
    header # <<>>
    => /\ Ascends(header)
       /\ Range(header) = {K_id} \cup discovered

\* the Header has grown by identifiers on both sides of "_id"
C10_Witness ==
    /\ Len(header) >= 4
    /\ header[1] # K_id
    /\ discovered # {}

\* C11, Header monotonic growth: a step that is not a setQuery call (a cell or
\* field access, with its reconciliations and store failures, or an out-of-band
\* change of the collection) never removes a member from the header.
C11_HeaderMonotonic ==
    [][last'.op # "setQuery" => Range(header) \subseteq Range(header')]_vars

\* an access that reconciled a row deletion while the header holds discovered
\* columns
C11_Witness ==
    /\ last.op \in Accesses
    /\ last.fetch = "unavailable"
    /\ RemoveRows(last.events) # {}
    /\ Len(header) >= 3

\* C12 as stated, submitQuery is atomic: a setQuery call whose find or count is
\* rejected by the store never leaves the cursor of the new query together with
\* the rowCount, cache and header of the old one: either the cursor is the one
\* bound before the call, or rowCount, cache and header are those of the new
\* query.
C12_AsStated ==
    [][(cursor.bound /\ last'.op = "setQuery" /\ last'.ret.t = "raise")
       => \/ cursor' = cursor
          \/ /\ n_docs' = Count(store', last'.query)
             /\ cache' = <<>>
             /\ header' = ResetHeader]_vars

\* C13 as stated, structural notifications are bracketed: the signals of every
\* operation, the ones a store call fails in included, are a sequence of pairs,
\* each begin directly followed by its matching end.
C13_AsStated ==
    LET ev == last.events
        Matching(b, e) ==
            \/ b = "beginRemoveRows" /\ e = "endRemoveRows"
            \/ b = "beginInsertColumns" /\ e = "endInsertColumns"
            \/ b = "beginResetModel" /\ e = "endResetModel"
    IN /\ Len(ev) % 2 = 0
       /\ \A i \in 1..Len(ev) :
             i % 2 = 1 => Matching(ev[i].e, ev[i + 1].e)

\* C14, idempotence with cache hit: when data(index(r, c), role) has returned (a
\* value or the absent QVariant) and the next step is the same call again, with
\* no change of the collection and no other operation in between, the second
\* call returns the same value and makes no round trip to the store: it is
\* served from the cache, or its index is no longer valid.
C14_Idempotent ==
    [][(/\ last.op = "data" /\ last.ret.t # "raise"
        /\ last'.op = "data" /\ last'.row = last.row /\ last'.col = last.col
        /\ last'.role = last.role)
       => /\ last'.ret = last.ret
          /\ last'.fetch \in {"hit", "none"}
          /\ last'.recount = "none"
          /\ store' = store]_vars

\* a cell access of a valid index served from the cache, the cached result being
\* the None of an earlier fetch that failed
C14_Witness ==
    /\ last.op = "data"
    /\ last.fetch = "hit"
    /\ ValidIndex(last.row, last.col)
    /\ last.ret = QVariant
    /\ CacheHas(cache, last.row)
    /\ cache[CachePos(cache, last.row)].result = None

\* ------------------------------------------------------------- getKeys alone
\* the nesting levels of the documents getKeys is applied to
DocLevels == 2

\* the documents with keys "a" and "b", empty documents included: the value of
\* "a" is nested at most `level` levels deep, the value of "b" at most one
RECURSIVE Docs(_)
Docs(level) ==
    LET shallow == {Scalar(1)}
                   \cup IF level = 0 THEN {} ELSE {Dict(d) : d \in Docs(0)}
        deep == {Scalar(1)}
                \cup IF level = 0 THEN {} ELSE {Dict(d) : d \in Docs(level - 1)}
    IN UNION {{doc \in [S -> deep \cup shallow] :
                 K_b \in S => doc[K_b] \in shallow}
              : S \in SUBSET {K_a, K_b}}

\* a model with max_nesting and a document about to be discovered
InitDiscover ==
    /\ max_nesting \in 0..DocLevels
    /\ last \in {[op |-> "document", doc |-> d] : d \in Docs(DocLevels)}
    /\ discovered = {}
    /\ store = {}
    /\ storeOps = 0
    /\ header = <<>>
    /\ cursor = NoCursor
    /\ n_docs = 0
    /\ cache = <<>>
    /\ decorated = FALSE

\* doc_keys = getKeys(doc, self.max_nesting), as a set
GetKeysCall ==
    /\ last.op = "document"
    /\ discovered' = GetKeys(last.doc, max_nesting, <<>>)
    /\ last' = [op |-> "getKeys", doc |-> last.doc]
    /\ UNCHANGED <<store, storeOps, max_nesting, header, cursor, n_docs, cache,
                   decorated>>

NextDiscover == GetKeysCall

SpecDiscover == InitDiscover /\ [][NextDiscover]_vars

\* the key sequences that lead to a value of a document: every proper prefix
\* of such a sequence holds a nested document
RECURSIVE PathsOf(_)
PathsOf(doc) ==
    UNION {{<<key>>}
           \cup IF IsDict(doc[key])
                THEN {<<key>> \o p : p \in PathsOf(doc[key].d)}
                ELSE {}
           : key \in DOMAIN doc}

\* the value a key sequence leads to
RECURSIVE At(_, _)
At(doc, p) == IF Len(p) = 1 THEN doc[p[1]] ELSE At(doc[p[1]].d, Tail(p))

\* the dotted path of a key sequence
RECURSIVE Join(_)
Join(p) ==
    IF Len(p) = 1 THEN p[1]
    ELSE Dotted(Join(SubSeq(p, 1, Len(p) - 1)), p[Len(p)])

\* C15 as stated, nested discovery: getKeys(doc, k) yields exactly the dotted
\* paths p whose proper prefixes all hold a nested document and that either
\* have k + 1 segments or lead to a value that is not a nested document.
C15_AsStated ==
    last.op = "getKeys"
    => discovered
         = {Join(p) : p \in {p \in PathsOf(last.doc) :
                               \/ Len(p) = max_nesting + 1
                               \/ ~IsDict(At(last.doc, p))}}

\* C15 amended: getKeys(doc, k) yields exactly the dotted paths p of at most
\* k + 1 segments whose proper prefixes all hold a nested document and that
\* either have k + 1 segments or lead to a value that is not a nested document.
C15_Discovery ==
    last.op = "getKeys"
    => discovered
         = {Join(p) : p \in {p \in PathsOf(last.doc) :
                               /\ Len(p) <= max_nesting + 1
                               /\ \/ Len(p) = max_nesting + 1
                                  \/ ~IsDict(At(last.doc, p))}}

\* getKeys with k >= 1 has kept a nested document at k + 1 segments as one
\* column, next to a scalar found at fewer segments
C15_Witness ==
    /\ last.op = "getKeys"
    /\ max_nesting >= 1
    /\ \E p \in PathsOf(last.doc) :
          /\ Len(p) = max_nesting + 1
          /\ IsDict(At(last.doc, p))
          /\ Join(p) \in discovered
    /\ \E p \in PathsOf(last.doc) :
          /\ Len(p) <= max_nesting
          /\ ~IsDict(At(last.doc, p))
          /\ Join(p) \in discovered

\* ------------------------------------------------------------- headerData alone
Orientations == {"horizontal", "vertical"}

\* the current sort order of the proxy: unsorted, or sorted by a column
SortOrders == {"unsorted", "ascending", "descending"}

\* headerData(section, orientation, role) of BaseMongoTableModel;
\* self.header[section] is Python indexing, which counts a negative section
\* from the end of the list
HeaderData(section, orientation, role) ==
    IF role # "display" THEN QVariant
    ELSE IF orientation = "horizontal"
    THEN IF 0 <= section /\ section < Len(header)
         THEN [t |-> "str", s |-> header[section + 1]]
         ELSE IF section < 0 /\ -Len(header) <= section
         THEN [t |-> "str", s |-> header[Len(header) + section + 1]]
         ELSE \* except IndexError
              QVariant
    ELSE IF orientation = "vertical"
    THEN [t |-> "int", v |-> section + 1]
    ELSE QVariant

\* headerData as QSortFilterProxyModel implements it: the vertical header of a
\* proxy row is the one of the source row shown there
ProxyHeaderData_Mapped(section, orientation, role, order) ==
    IF orientation = "vertical" /\ order = "descending"
       /\ 0 <= section /\ section < n_docs
    THEN HeaderData(n_docs - 1 - section, orientation, role)
    ELSE HeaderData(section, orientation, role)

\* headerData(section, orientation, role) of MongoTableModel, the proxy being
\* sorted in the given order
ProxyHeaderData(section, orientation, role, order) ==
    HeaderData(section, orientation, role)

\* the headers a model can hold: none before the first setQuery, then "_id"
\* and the keys discovered so far, ascending
Headers ==
    {<<>>} \cup {Sorted(o) : o \in UNION {Orders(S \cup {K_id})
                                          : S \in SUBSET (Fields \ {K_id, K_b})}}

InitHeader ==
    /\ header \in Headers
    /\ n_docs \in 0..NumDocs
    /\ last = [op |-> "init"]
    /\ store = {}
    /\ storeOps = 0
    /\ max_nesting = MaxNesting
    /\ cursor = NoCursor
    /\ cache = <<>>
    /\ decorated = FALSE
    /\ discovered = {}

\* headerData called on the BaseMongoTableModel
HeaderDataCall(section, orientation, role) ==
    /\ last' = [op |-> "headerData", section |-> section,
                orientation |-> orientation, role |-> role, order |-> "",
                ret |-> HeaderData(section, orientation, role)]
    /\ UNCHANGED <<store, storeOps, max_nesting, header, cursor, n_docs, cache,
                   decorated, discovered>>

\* headerData called on the MongoTableModel
ProxyHeaderDataCall(section, orientation, role, order) ==
    /\ last' = [op |-> "proxyHeaderData", section |-> section,
                orientation |-> orientation, role |-> role, order |-> order,
                ret |-> ProxyHeaderData(section, orientation, role, order)]
    /\ UNCHANGED <<store, storeOps, max_nesting, header, cursor, n_docs, cache,
                   decorated, discovered>>

\* the sections a caller may ask for: the valid ones and one or more outside
Sections == (-(Len(header) + 1))..(IF Len(header) > n_docs THEN Len(header) ELSE n_docs)

NextHeader ==
    \/ \E section \in Sections, orientation \in Orientations, role \in Roles :
          HeaderDataCall(section, orientation, role)
    \/ \E section \in Sections, orientation \in Orientations, role \in Roles,
          order \in SortOrders :
          ProxyHeaderDataCall(section, orientation, role, order)

SpecHeader == InitHeader /\ [][NextHeader]_vars

\* C16 as stated: columnName(i), the horizontal display header of section i,
\* is the header entry at i for 0 <= i < columnCount() and absent for every
\* other integer i, the negative ones included.
C16_AsStated ==
    (/\ last.op = "headerData" /\ last.orientation = "horizontal"
     /\ last.role = "display")
    => IF 0 <= last.section /\ last.section < Len(header)
       THEN last.ret = [t |-> "str", s |-> header[last.section + 1]]
       ELSE last.ret = QVariant

\* C17, sorting proxy pass-through: under every sort order of the proxy,
\* headerData through the proxy returns what headerData of the underlying model
\* returns for the same section; the vertical display header of section i is
\* i + 1 whatever the sort order.
C17_ProxyPassThrough ==
    last.op = "proxyHeaderData"
    => /\ last.ret = HeaderData(last.section, last.orientation, last.role)
       /\ (last.orientation = "vertical" /\ last.role = "display")
          => last.ret = [t |-> "int", v |-> last.section + 1]

\* the row number of the first of several rows, asked through a proxy sorted
\* in descending order
C17_Witness ==
    /\ last.op = "proxyHeaderData"
    /\ last.order = "descending"
    /\ last.orientation = "vertical"
    /\ last.role = "display"
    /\ n_docs >= 2
    /\ last.section = 0
    /\ last.ret = [t |-> "int", v |-> 1]

\* the insert-columns notifications among the signals, in order
InsertColumns(events) ==
    SelectSeq(events, LAMBDA s : s.e = "beginInsertColumns")

\* the header before the column insertions `inserts` that led to hdr
RECURSIVE Undo(_, _)
Undo(hdr, inserts) ==
    IF inserts = <<>> THEN hdr
    ELSE LET b == inserts[Len(inserts)]
         IN Undo(SubSeq(hdr, 1, b.first) \o SubSeq(hdr, b.last + 2, Len(hdr)),
                 SubSeq(inserts, 1, Len(inserts) - 1))

\* every insertion lies within the header it yields and starts not after the
\* end of the header it is applied to
RECURSIVE WellPlaced(_, _)
WellPlaced(hdr, inserts) ==
    \/ inserts = <<>>
    \/ LET b == inserts[Len(inserts)]
           old == SubSeq(hdr, 1, b.first) \o SubSeq(hdr, b.last + 2, Len(hdr))
       IN /\ 0 <= b.first /\ b.first <= b.last
          /\ b.last <= Len(old) /\ b.last < Len(hdr)
          /\ Len(hdr) = Len(old) + (b.last - b.first + 1)
          /\ WellPlaced(old, SubSeq(inserts, 1, Len(inserts) - 1))

\* C18, insert-columns notifications report the correct position: in every
\* access, whatever the order in which the new keys are processed, each
\* begin(first, last) is directly followed by its end, has
\* 0 <= first <= last <= the column count before it, the entries at first..last
\* after it are the ones it added (removing the announced entries, last
\* notification first, gives the header before the access), and every new
\* identifier is announced by exactly one notification.
C18_InsertColumns ==
    [][last'.op \in Accesses
       => LET ev == last'.events
              ins == InsertColumns(ev)
          IN /\ \A i \in 1..Len(ev) :
                   ev[i].e = "beginInsertColumns"
                   => i < Len(ev) /\ ev[i + 1].e = "endInsertColumns"
             /\ WellPlaced(header', ins)
             /\ Undo(header', ins) = header
             /\ Len(ins) = Cardinality(Range(header') \ Range(header))
             /\ \A i \in 1..Len(ins) : ins[i].first = ins[i].last]_vars

\* an access that announced two new columns, the one further right first
C18_Witness ==
    /\ last.op \in Accesses
    /\ Len(InsertColumns(last.events)) >= 2
    /\ InsertColumns(last.events)[1].first > InsertColumns(last.events)[2].first
    /\ InsertColumns(last.events)[2].first < Len(header) - 1

\* C19, rowCount is non-increasing between submitQuery calls: a step that is
\* not a completed setQuery never raises n_docs and never makes it negative,
\* also when documents are inserted out-of-band; n_docs changes only in an
\* access whose fetch was reported unavailable, and only to the recount, which
\* is then strictly smaller.
C19_RowCountNonIncreasing ==
    [][~(last'.op = "setQuery" /\ last'.ret.t # "raise")
       => /\ 0 <= n_docs' /\ n_docs' <= n_docs
          /\ n_docs' # n_docs
             => /\ last'.op \in Accesses
                /\ last'.fetch = "unavailable" /\ last'.recount = "ok"
                /\ n_docs' = Count(store', cursor.query)
                /\ n_docs' < n_docs]_vars

\* after a reconciliation lowered n_docs, a document inserted out-of-band made
\* the result set larger than n_docs, and accesses have run since
C19_Witness ==
    /\ cursor.bound
    /\ last.op \in Accesses
    /\ storeOps = 2
    /\ store = DocIds
    /\ Count(store, cursor.query) > n_docs
    /\ last.fetch = "doc"

\* key t itself, or a dotted path below t
Covers(column, t) ==
    \/ column = t
    \/ /\ Len(column) > Len(t) + 1
       /\ SubSeq(column, 1, Len(t) + 1) = t \o <<".">>

\* C20 as stated, every top-level key is covered: after an access that was
\* served a document, for every top-level key t of that document the header
\* holds t or a dotted path t.<sub-path>, for every max_nesting and every
\* document shape, empty nested documents included.
C20_AsStated ==
    (last.op \in Accesses /\ Served(last, cache) # None)
    => \A t \in DOMAIN Served(last, cache).d :
          \E i \in 1..Len(header) : Covers(header[i], t)

====
